---- MODULE Spec2Model ----
(***************************************************************************)
(* Model of src/attributes/notification.rs of the ancs crate: the          *)
(* NotificationAttributeID enumeration, its conversions to and from the    *)
(* one-byte wire code, the nom-based parser of one identifier, and the     *)
(* is_sized classification.                                                *)
(*                                                                         *)
(* A byte slice (&[u8]) is a record [ptr, len] into the buffer `buf`:      *)
(* ptr is the offset of its first byte, len its length.                    *)
(***************************************************************************)
EXTENDS Integers, Sequences, FiniteSets, TLC

\* Largest value of a u8.
U8Max == 255

\* Bounds of the model: longest buffer, and the largest of the low bytes a
\* buffer is filled with (to which the bytes 200 and 255 are added).
MaxLen == 3
SmallByteMax == 9

VARIABLES
    op,      \* codec: the conversion applied last ("none" before the first)
    arg,     \* codec: its argument
    ret,     \* codec: its return value
    origin,  \* codec: the variant whose code the byte given to try_from was
    buf,     \* parser: the bytes of the caller's buffer
    orig,    \* parser: the bytes of the buffer when the caller started
    i,       \* parser: the caller's cursor, a slice of buf
    input,   \* parser: the slice given to the last call of parse
    res,     \* parser: what the last call of parse returned
    ids      \* parser: the identifiers decoded so far, in order

vars == <<op, arg, ret, origin, buf, orig, i, input, res, ids>>
codecVars == <<op, arg, ret, origin>>
parseVars == <<buf, orig, i, input, res, ids>>

------------------------------------------------------------------------------
\* The enum, in declaration order; the discriminant of a variant is its
\* index less one.
NotificationAttributeID ==
    << "AppIdentifier", "Title", "Subtitle", "Message",
       "MessageSize", "Date", "PositiveActionLabel", "NegativeActionLabel" >>

Variants == { NotificationAttributeID[k] : k \in 1..Len(NotificationAttributeID) }

Discriminant(v) ==
    (CHOOSE k \in 1..Len(NotificationAttributeID) : NotificationAttributeID[k] = v) - 1

U8 == 0..U8Max

NotificationAttributeIDError == [ok |-> FALSE, err |-> "NotificationAttributeIDError"]

Ok(v) == [ok |-> TRUE, id |-> v]

\* A mapping that gives two variants the same code.
from_dup(original) ==
    CASE original = "AppIdentifier" -> 0
      [] original = "Title" -> 1
      [] original = "Subtitle" -> 2
      [] original = "Message" -> 3
      [] original = "MessageSize" -> 4
      [] original = "Date" -> 4
      [] original = "PositiveActionLabel" -> 6
      [] original = "NegativeActionLabel" -> 7

\* impl From<NotificationAttributeID> for u8
from(original) ==
    CASE original = "AppIdentifier" -> 0
      [] original = "Title" -> 1
      [] original = "Subtitle" -> 2
      [] original = "Message" -> 3
      [] original = "MessageSize" -> 4
      [] original = "Date" -> 5
      [] original = "PositiveActionLabel" -> 6
      [] original = "NegativeActionLabel" -> 7

\* A reverse mapping with the last two arms exchanged.
try_from_swapped(original) ==
    CASE original = 0 -> Ok("AppIdentifier")
      [] original = 1 -> Ok("Title")
      [] original = 2 -> Ok("Subtitle")
      [] original = 3 -> Ok("Message")
      [] original = 4 -> Ok("MessageSize")
      [] original = 5 -> Ok("Date")
      [] original = 6 -> Ok("NegativeActionLabel")
      [] original = 7 -> Ok("PositiveActionLabel")
      [] OTHER -> NotificationAttributeIDError

\* A reverse mapping that accepts one code too many.
try_from_wide(original) ==
    CASE original = 0 -> Ok("AppIdentifier")
      [] original = 1 -> Ok("Title")
      [] original = 2 -> Ok("Subtitle")
      [] original = 3 -> Ok("Message")
      [] original = 4 -> Ok("MessageSize")
      [] original = 5 -> Ok("Date")
      [] original = 6 -> Ok("PositiveActionLabel")
      [] original = 7 -> Ok("NegativeActionLabel")
      [] original = 8 -> Ok("NegativeActionLabel")
      [] OTHER -> NotificationAttributeIDError

\* impl TryFrom<u8> for NotificationAttributeID
try_from(original) ==
    CASE original = 0 -> Ok("AppIdentifier")
      [] original = 1 -> Ok("Title")
      [] original = 2 -> Ok("Subtitle")
      [] original = 3 -> Ok("Message")
      [] original = 4 -> Ok("MessageSize")
      [] original = 5 -> Ok("Date")
      [] original = 6 -> Ok("PositiveActionLabel")
      [] original = 7 -> Ok("NegativeActionLabel")
      [] OTHER -> NotificationAttributeIDError

\* A classification that also counts MessageSize as sized.
is_sized_size(id) ==
    CASE id = "Title" -> TRUE
      [] id = "Subtitle" -> TRUE
      [] id = "Message" -> TRUE
      [] id = "MessageSize" -> TRUE
      [] OTHER -> FALSE

\* NotificationAttributeID::is_sized
is_sized(id) ==
    CASE id = "Title" -> TRUE
      [] id = "Subtitle" -> TRUE
      [] id = "Message" -> TRUE
      [] OTHER -> FALSE

------------------------------------------------------------------------------
\* Slices.
Slice(p, l) == [ptr |-> p, len |-> l]

Bytes(b, s) == SubSeq(b, s.ptr + 1, s.ptr + s.len)

\* The streaming reader: an empty input asks for one more byte.
le_u8_streaming(b, s) ==
    IF s.len < 1
    THEN [kind |-> "Incomplete", needed |-> 1]
    ELSE [kind |-> "Ok", rest |-> Slice(s.ptr + 1, s.len - 1), val |-> b[s.ptr + 1]]

\* A reader that advances by the width of a u16.
le_u8_two(b, s) ==
    IF s.len < 1
    THEN [kind |-> "Error", input |-> s, code |-> "Eof"]
    ELSE [kind |-> "Ok",
          rest |-> Slice(s.ptr + (IF s.len < 2 THEN 1 ELSE 2),
                         s.len - (IF s.len < 2 THEN 1 ELSE 2)),
          val |-> b[s.ptr + 1]]

\* nom::number::complete::le_u8: with fewer bytes than one, the recoverable
\* Err::Error at the input with ErrorKind::Eof; otherwise the first byte and
\* input.slice(1..).
le_u8(b, s) ==
    IF s.len < 1
    THEN [kind |-> "Error", input |-> s, code |-> "Eof"]
    ELSE [kind |-> "Ok", rest |-> Slice(s.ptr + 1, s.len - 1), val |-> b[s.ptr + 1]]

\* A parser that reports an unknown code as the recoverable Err::Error.
parse_soft(b, s) ==
    LET r == le_u8(b, s) IN
    IF r.kind # "Ok" THEN r
    ELSE LET t == try_from(r.val) IN
         IF t.ok
         THEN [kind |-> "Ok", rest |-> r.rest, id |-> t.id]
         ELSE [kind |-> "Error", input |-> r.rest, code |-> "Fail"]

\* A parser that decodes the last byte of its input instead of the first.
parse_last(b, s) ==
    LET r == le_u8(b, s) IN
    IF r.kind # "Ok" THEN r
    ELSE LET t == try_from(b[s.ptr + s.len]) IN
         IF t.ok
         THEN [kind |-> "Ok", rest |-> r.rest, id |-> t.id]
         ELSE [kind |-> "Failure", input |-> r.rest, code |-> "Fail"]

\* NotificationAttributeID::parse: `?` returns the error of le_u8 as it is;
\* the `i` of both arms is the shadowing one, the input after the byte.
parse(b, s) ==
    LET r == le_u8(b, s) IN
    IF r.kind # "Ok" THEN r
    ELSE LET t == try_from(r.val) IN
         IF t.ok
         THEN [kind |-> "Ok", rest |-> r.rest, id |-> t.id]
         ELSE [kind |-> "Failure", input |-> r.rest, code |-> "Fail"]

------------------------------------------------------------------------------
\* The bytes buffers are filled with, and the buffers.
BufBytes == (0..SmallByteMax) \cup {200, U8Max}

Buffers == UNION { [1..n -> BufBytes] : n \in 0..MaxLen }

NoResult == [kind |-> "none"]

CodecIdle ==
    /\ op = "none"
    /\ arg = 0
    /\ ret = 0
    /\ origin = "none"

ParseIdle ==
    /\ buf = << >>
    /\ orig = << >>
    /\ i = Slice(0, 0)
    /\ input = Slice(0, 0)
    /\ res = NoResult
    /\ ids = << >>

\* A caller converts a variant to its byte.
Convert ==
    /\ \E v \in Variants :
          /\ op' = "from"
          /\ arg' = v
          /\ ret' = from(v)
    /\ origin' = "none"
    /\ UNCHANGED parseVars

\* A caller converts a byte to a variant; the byte may be the one the
\* conversion before it produced.
TryConvert ==
    /\ \E b \in U8 :
          /\ op' = "try_from"
          /\ arg' = b
          /\ ret' = try_from(b)
          /\ origin' = IF op = "from" /\ ret = b THEN arg ELSE "none"
    /\ UNCHANGED parseVars

\* A caller classifies a variant.
Classify ==
    /\ \E v \in Variants :
          /\ op' = "is_sized"
          /\ arg' = v
          /\ ret' = is_sized(v)
    /\ origin' = "none"
    /\ UNCHANGED parseVars

\* A caller parses the next identifier of its buffer: the first call on the
\* whole buffer, each later one on the remainder the call before it returned.
ParseNext ==
    /\ res.kind \in {"none", "Ok"}
    /\ input' = i
    /\ res' = parse(buf, i)
    /\ i' = IF res'.kind = "Ok" THEN res'.rest ELSE i
    /\ ids' = IF res'.kind = "Ok" THEN Append(ids, res'.id) ELSE ids
    /\ UNCHANGED <<buf, orig>>
    /\ UNCHANGED codecVars

\* The pure conversions, each applied to every input it has.
InitCodec == CodecIdle /\ ParseIdle

NextCodec == Convert \/ TryConvert \/ Classify

SpecCodec == InitCodec /\ [][NextCodec]_vars

\* The parser, called in sequence over every buffer of the bounds.
Init ==
    /\ CodecIdle
    /\ \E b \in Buffers :
          /\ buf = b
          /\ orig = b
          /\ i = Slice(0, Len(b))
    /\ input = Slice(0, 0)
    /\ res = NoResult
    /\ ids = << >>

Next == ParseNext

Spec == Init /\ [][Next]_vars

------------------------------------------------------------------------------
\* The table of section 3 of the specification: code k is bound to
\* CodeTable[k + 1].
CodeTable ==
    << "AppIdentifier", "Title", "Subtitle", "Message",
       "MessageSize", "Date", "PositiveActionLabel", "NegativeActionLabel" >>

ValidCodes == 0..7

Called == res.kind # "none"

\* The first byte of the input of the last call (of a non-empty input).
First == buf[input.ptr + 1]

\* C1: round trip. Whenever try_from is given the byte that u8::from
\* produced for a variant v, it returns Ok(v).
C1_RoundTrip ==
    (op = "try_from" /\ origin # "none") => ret = Ok(origin)

C1_Witness ==
    op = "try_from" /\ origin = "NegativeActionLabel" /\ arg = 7

\* C2: exhaustive reverse mapping. try_from of a byte in 0..7 is Ok of the
\* variant the table binds to it, try_from of a byte in 8..255 is the
\* NotificationAttributeIDError; 8 bytes succeed and 248 fail.
C2_ReverseMapping ==
    /\ op = "try_from" =>
          /\ arg \in ValidCodes => ret = Ok(CodeTable[arg + 1])
          /\ arg \in U8 \ ValidCodes => ret = NotificationAttributeIDError
          /\ ret.ok <=> arg \in ValidCodes
    /\ Cardinality({ b \in U8 : try_from(b).ok }) = 8
    /\ Cardinality({ b \in U8 : ~ try_from(b).ok }) = 248

C2_Witness ==
    op = "try_from" /\ arg = 8 /\ ~ ret.ok

\* C3: forward mapping. u8::from of a variant is its code of the table, a
\* value of 0..7, and no other variant has the same code.
C3_ForwardMapping ==
    op = "from" =>
       /\ arg \in Variants
       /\ ret \in ValidCodes
       /\ CodeTable[ret + 1] = arg
       /\ ret = Discriminant(arg)
       /\ \A w \in Variants : w # arg => from(w) # ret

C3_Witness ==
    op = "from" /\ arg = "Date" /\ ret = 5

\* C7: is_sized is TRUE for Title, Subtitle and Message and FALSE for the
\* five other variants.
C7_SizedClassification ==
    op = "is_sized" => ret = (arg \in {"Title", "Subtitle", "Message"})

C7_Witness ==
    op = "is_sized" /\ arg = "MessageSize" /\ ret = FALSE

\* C4: on a non-empty input whose first byte b is in 0..7, parse returns
\* Ok((rest, id)), id the variant of code b and rest the input without its
\* first byte.
C4_ConsumesOneByte ==
    (Called /\ input.len > 0 /\ First \in ValidCodes) =>
       /\ res.kind = "Ok"
       /\ res.id = CodeTable[First + 1]
       /\ res.rest.len = input.len - 1
       /\ Bytes(buf, res.rest) = Tail(Bytes(buf, input))

C4_Witness ==
    /\ res.kind = "Ok"
    /\ res.id = "Message"
    /\ input.ptr = 1
    /\ res.rest.len = 1

\* C5 as stated: on an empty input parse fails with Incomplete.
C5_Original ==
    (Called /\ input.len = 0) => res.kind = "Incomplete"

\* C5, amended: on an empty input parse fails with the recoverable
\* Err::Error of kind Eof at the input; neither with Incomplete, nor with
\* the Failure of an unknown code, nor with success.
C5_EmptyInput ==
    (Called /\ input.len = 0) =>
       /\ res.kind = "Error"
       /\ res.code = "Eof"
       /\ res.input = input

C5_Witness ==
    Called /\ input.len = 0 /\ res.kind = "Error" /\ Len(ids) = 2

\* C6: on a non-empty input whose first byte is in 8..255, parse fails with
\* Err::Failure of kind Fail, whatever bytes follow, and yields no
\* identifier.
C6_InvalidValue ==
    (Called /\ input.len > 0 /\ First \in U8 \ ValidCodes) =>
       /\ res.kind = "Failure"
       /\ res.code = "Fail"
       /\ "id" \notin DOMAIN res
       /\ Len(ids) = input.ptr

C6_Witness ==
    /\ res.kind = "Failure"
    /\ input.len >= 2
    /\ First = 200
    /\ buf[input.ptr + 2] \in ValidCodes

\* What C8 says of a sequence of calls, `empty` being the kind of the
\* failure on an empty remainder.
Sequential(empty) ==
    /\ buf = orig
    /\ Len(ids) <= Len(buf)
    /\ \A k \in 1..Len(ids) : buf[k] \in ValidCodes /\ ids[k] = CodeTable[buf[k] + 1]
    /\ i = Slice(Len(ids), Len(buf) - Len(ids))
    /\ Bytes(buf, i) = SubSeq(orig, Len(ids) + 1, Len(orig))
    /\ res.kind = "Ok" => input = Slice(Len(ids) - 1, Len(buf) - Len(ids) + 1)
    /\ res.kind \notin {"none", "Ok"} =>
          /\ input = i
          /\ \/ /\ Len(ids) < Len(buf)
                /\ buf[Len(ids) + 1] \notin ValidCodes
                /\ res.kind = "Failure"
             \/ /\ Len(ids) = Len(buf)
                /\ res.kind = empty

\* C8 as stated: the sequence ends with Incomplete on an empty remainder.
C8_Original == Sequential("Incomplete")

\* C8, amended: after k successful calls the identifiers are those of
\* b[0..k-1] in order, the remainder is b[k..n-1], the buffer is unchanged,
\* and the sequence ends at the first byte outside 0..7 (Failure) or on the
\* empty remainder (Err::Error of kind Eof).
C8_Sequential == Sequential("Error")

C8_Witness ==
    /\ Len(ids) = 2
    /\ ids[1] # ids[2]
    /\ res.kind = "Failure"
    /\ Len(buf) = 3

\* The position of the cursor that the last call returned.
Returned == IF res.kind = "Ok" THEN res.rest ELSE res.input

\* C9: in every outcome the cursor parse returns is at most one byte past
\* the start of its input, and on an empty input it is the start.
C9_AtMostOneByte ==
    Called =>
       /\ Returned.ptr - input.ptr \in {0, 1}
       /\ Returned.ptr + Returned.len = input.ptr + input.len
       /\ input.len = 0 => Returned = input

C9_Witness ==
    /\ res.kind = "Failure"
    /\ input.len = 3
    /\ Returned.ptr = 1

\* What C10 says of the last call, `empty` being the kind of the failure on
\* an empty input. The one-byte buffer of the same first byte stands for
\* every other buffer that starts with it.
FirstByteOnly(empty) ==
    Called =>
       /\ res.kind \in {"Ok", empty, "Failure"}
       /\ res.kind = "Ok" <=> (input.len > 0 /\ First \in ValidCodes)
       /\ res.kind = "Failure" <=> (input.len > 0 /\ First \in U8 \ ValidCodes)
       /\ res.kind = empty <=> input.len = 0
       /\ res.kind = "Ok" => Ok(res.id) = try_from(First)
       /\ input.len > 0 =>
             LET other == parse(<< First >>, Slice(0, 1)) IN
             /\ other.kind = res.kind
             /\ res.kind = "Ok" => other.id = res.id

\* C10 as stated: success, Incomplete and InvalidValue are the outcomes.
C10_Original == FirstByteOnly("Incomplete")

\* C10, amended: the outcome is success iff the first byte is in 0..7,
\* Failure iff it is in 8..255, and Err::Error of kind Eof iff the input
\* is empty; the identifier is that of the first byte alone.
C10_FirstByteOnly == FirstByteOnly("Error")

C10_Witness ==
    /\ res.kind = "Ok"
    /\ input.len = 3
    /\ First = 0
    /\ buf[input.ptr + 2] = U8Max

====
